---------------------------- MODULE Spec2Model ----------------------------
(***************************************************************************)
(* CPUMonitorPy (src/main.py): a sampler thread (CPUMonitor) appends CPU,  *)
(* frequency, load and temperature readings to bounded deques while the    *)
(* main thread renders them, handles SIGINT, and on shutdown prints a      *)
(* summary and optionally exports the windows as CSV.                      *)
(*                                                                         *)
(* Time is counted in units of 0.5 s (the base sampling interval).  Metric *)
(* values are whole numbers; a mean is kept as an exact fraction.          *)
(***************************************************************************)
EXTENDS Integers, Sequences, FiniteSets, TLC

(***************************************************************************)
(* Settings (src/main.py:27-33) and Thresholds (src/main.py:20-25).        *)
(***************************************************************************)
\* sample_interval_sec = 0.5 s = 1 time unit
SampleInterval == 1
\* temp_sample_interval_sec = 2.0 s = 4 time units
TempSampleInterval == 4
\* window_duration_sec, scaled down from the source's 10 s (20 units) so that
\* a bounded run fills the windows and evicts from them
WindowDuration == 4
\* Thresholds defaults
CpuWarn == 70
CpuCrit == 90
TempWarn == 70
TempCrit == 85
\* cpu_sensor_keys, in preference order
CpuSensorKeys == <<"coretemp", "cpu_thermal", "k10temp", "acpitz">>

(***************************************************************************)
(* Bounds of the model.                                                    *)
(***************************************************************************)
\* wall-clock reading (time.time()) at construction; _last_temp_time starts
\* at 0.0, so any epoch >= TempSampleInterval makes the first check succeed
Epoch == 10
\* how many time units the clock may advance after construction, in a run of
\* the whole program and in a run of the sampler thread alone
Horizon == 2
SamplerHorizon == 4
\* SIGINT deliveries
MaxSignals == 2
\* read failures (exceptions raised inside sample()) per run of the whole
\* program and per run of the sampler thread alone
MaxFaults == 1
SamplerMaxFaults == 2
\* a run that measures the temperature cadence: its length in time units,
\* and by how much a time.sleep() may overshoot
CadenceHorizon == 28
MaxJitter == 1
\* a run that feeds a scenario to the renderer: its length in time units
ScenarioHorizon == 3
\* the largest threshold tried on colorize
MaxThreshold == 5
\* a run that is shut down by one SIGINT: how far its clock is read
LiveHorizon == 1

(***************************************************************************)
(* Optional values: None is <<>>, a present value x is <<x>>.              *)
(***************************************************************************)
None == <<>>
Some(x) == <<x>>

(***************************************************************************)
(* collections.deque(maxlen=n): append drops from the left when full; a    *)
(* deque of maxlen 0 stays empty.                                          *)
(***************************************************************************)
\* a bounded buffer that drops the new item, not the oldest, when full
DequeAppendKeepOldest(d, x, maxlen) ==
    IF Len(d) < maxlen THEN Append(d, x) ELSE d

\* a buffer that grows without evicting
DequeAppendUnbounded(d, x, maxlen) == Append(d, x)

DequeAppend(d, x, maxlen) ==
    IF maxlen = 0 THEN <<>>
    ELSE IF Len(d) < maxlen THEN Append(d, x)
    ELSE Append(Tail(d), x)

\* CPUMonitor.__init__: maxlen = int(window_duration / interval)
CpuCapacity == WindowDuration \div SampleInterval
TempCapacity == WindowDuration \div TempSampleInterval

\* datetime.now().strftime("%Y-%m-%d %H:%M:%S"): the clock cut to whole seconds
\* (two time units per second)
FormatTimestamp(t) == t \div 2


(***************************************************************************)
(* State.                                                                  *)
(***************************************************************************)
VARIABLES
    \* CPUMonitor fields
    cpu_samples, temp_samples, freq_samples, load_samples, timestamps,
    last_temp_time, running, sensor_key, start_time, end_time,
    \* the sampler thread: its position in run()/sample(), the time its
    \* time.sleep() returns, what became of each step of the current tick
    \* ("pending", "done" or "raised"), and the number of "Error during
    \* sampling" lines it has logged
    sPc, sWake, thisTick, logged,
    \* the wall clock and the SIGINTs delivered so far
    clock, signals,
    \* history: every CPU reading appended so far, the temperature reads
    \* attempted, the clock at the start of the first tick, the ticks begun
    cpu_hist, tempAttempts, firstTickAt, ticks,
    \* the main thread: its position in __main__, the time its time.sleep()
    \* returns, the position of a running signal_handler inside stop()
    mPc, mWake, hPc,
    \* what the main thread has shown or written: the values of the last
    \* make_renderable pass, the printed summary, the CSV rows and the
    \* outcome of save_data_log
    ui, summary, csv_rows, csv_status,
    \* one application of colorize: its arguments and the colour it gave
    probe

monitorVars == <<cpu_samples, temp_samples, freq_samples, load_samples,
                 timestamps, last_temp_time, running, sensor_key,
                 start_time, end_time>>
windowVars == <<cpu_samples, temp_samples, freq_samples, load_samples,
                timestamps>>
samplerVars == <<sPc, sWake, thisTick, logged>>
historyVars == <<cpu_hist, tempAttempts, firstTickAt, ticks>>
mainVars == <<mPc, mWake, hPc, ui, summary, csv_rows, csv_status>>
outputVars == <<ui, summary, csv_rows, csv_status>>
vars == <<monitorVars, samplerVars, clock, signals, historyVars, mainVars, probe>>

(***************************************************************************)
(* The metric source (psutil).  A read either returns a value or raises;   *)
(* ok = FALSE is a raised exception.                                       *)
(***************************************************************************)
Raised(v) == [ok |-> FALSE, val |-> v]
Returned(v) == [ok |-> TRUE, val |-> v]

\* psutil.sensors_temperatures(): a dict from sensor-group name to a list of
\* entries; here a function that gives None for a name that is not a key.
\* An entry is its reading (current) and whether its label is non-empty
\* and contains "package" or "core 0" (match).
SensorNames == {"coretemp", "cpu_thermal", "k10temp", "acpitz", "nvme"}
NoSensors == [k \in SensorNames |-> None]
Entry(m, c) == [match |-> m, current |-> c]
OneGroup(k, entries) == [NoSensors EXCEPT ![k] = Some(entries)]

\* CPUMonitor._detect_sensor_key: the first preferred key the dict has;
\* "none" is Python's None
DetectSensorKey(r) ==
    IF ~r.ok THEN "none"
    ELSE LET found == {i \in 1..Len(CpuSensorKeys) : r.val[CpuSensorKeys[i]] # None}
         IN IF found = {} THEN "none"
            ELSE CpuSensorKeys[CHOOSE i \in found : \A j \in found : i <= j]

\* the reading _read_temperature takes from a group's entries: the first
\* matching label's, else (or when that reading is 0.0, which "or" treats
\* as missing) the first entry's, else None
PickEntry(entries) ==
    LET hits == {i \in 1..Len(entries) : entries[i].match}
        match == IF hits = {} THEN None
                 ELSE Some(entries[CHOOSE i \in hits : \A j \in hits : i <= j].current)
    IN IF match # None /\ match[1] # 0 THEN match
       ELSE IF entries # <<>> THEN Some(entries[1].current)
       ELSE None

\* a read that takes whatever sensor group is there, resolved key or not
ReadTemperatureAnyGroup(key, r) ==
    IF ~r.ok THEN None
    ELSE LET present == {k \in SensorNames : r.val[k] # None}
         IN IF present = {} THEN None
            ELSE PickEntry(r.val[CHOOSE k \in present : TRUE][1])

\* CPUMonitor._read_temperature
ReadTemperature(key, r) ==
    IF ~r.ok THEN None
    ELSE IF key # "none" /\ r.val[key] # None THEN PickEntry(r.val[key][1])
    ELSE None

(***************************************************************************)
(* CPUMonitor.__init__: the state after construction.                      *)
(***************************************************************************)
MonitorInit ==
    /\ cpu_samples = <<>>
    /\ temp_samples = <<>>
    /\ freq_samples = <<>>
    /\ load_samples = <<>>
    /\ timestamps = <<>>
    /\ last_temp_time = 0
    /\ running = TRUE
    /\ sensor_key = "none"
    /\ start_time = Epoch
    /\ end_time = None

(***************************************************************************)
(* The sampler thread: CPUMonitor.run and CPUMonitor.sample, one action    *)
(* per statement.  src is the metric source: the outcomes each read may    *)
(* have.                                                                   *)
(***************************************************************************)
TickSteps == {"ts", "cpu", "freq", "load", "temp"}
NewTick == [s \in TickSteps |-> "pending"]

\* the tick is over (normally or through the except clause) and run() calls
\* time.sleep(sample_interval_sec)
EndTick ==
    /\ sPc' = "sleeping"
    /\ sWake' = clock + SampleInterval

\* a tick whose exception is logged but ends the thread
LogAndExitThread ==
    /\ logged' = logged + 1
    /\ sPc' = "exited"
    /\ sWake' = sWake

\* except Exception: console.log(...), then the tick is over
LogAndEndTick ==
    /\ logged' = logged + 1
    /\ EndTick

\* a raising outcome is drawn only while the run's fault budget lasts
MayDraw(src, r) == r.ok \/ logged < src.max_faults

\* run(): self._sensor_key = self._detect_sensor_key()
Detect(src) ==
    /\ sPc = "detect"
    /\ \E r \in src.temps : sensor_key' = DetectSensorKey(r)
    /\ sPc' = "check"
    /\ UNCHANGED <<windowVars, last_temp_time, running, start_time, end_time,
                   sWake, thisTick, logged, clock, signals, mainVars, historyVars, probe>>

\* a loop that goes on to the next tick without reading the flag
LoopCheckIgnoringFlag ==
    /\ sPc = "check"
    /\ sPc' = "ts"
    /\ thisTick' = NewTick
    /\ ticks' = ticks + 1
    /\ firstTickAt' = IF firstTickAt = None THEN Some(clock) ELSE firstTickAt
    /\ UNCHANGED <<monitorVars, sWake, logged, clock, signals, mainVars, cpu_hist, tempAttempts, probe>>

\* run(): while self.running.is_set()
LoopCheck ==
    /\ sPc = "check"
    /\ IF running
         THEN /\ sPc' = "ts"
              /\ thisTick' = NewTick
              /\ ticks' = ticks + 1
              /\ firstTickAt' = IF firstTickAt = None THEN Some(clock) ELSE firstTickAt
         ELSE /\ sPc' = "exited"
              /\ UNCHANGED <<thisTick, ticks, firstTickAt>>
    /\ UNCHANGED <<monitorVars, sWake, logged, clock, signals, mainVars, cpu_hist, tempAttempts, probe>>

\* sample(): self.timestamps.append(now)
SampleTimestamp ==
    /\ sPc = "ts"
    /\ timestamps' = DequeAppend(timestamps, FormatTimestamp(clock), CpuCapacity)
    /\ thisTick' = [thisTick EXCEPT !["ts"] = "done"]
    /\ sPc' = "cpu"
    /\ UNCHANGED <<cpu_samples, temp_samples, freq_samples, load_samples,
                   last_temp_time, running, sensor_key, start_time, end_time,
                   sWake, logged, clock, signals, mainVars, historyVars, probe>>

\* a CPU step whose failed read is logged and does not end the tick
SampleCpuGoOn(src) ==
    /\ sPc = "cpu"
    /\ \E r \in src.cpu :
         /\ MayDraw(src, r)
         /\ IF r.ok
              THEN /\ cpu_samples' = DequeAppend(cpu_samples, r.val, CpuCapacity)
                   /\ cpu_hist' = Append(cpu_hist, r.val)
                   /\ thisTick' = [thisTick EXCEPT !["cpu"] = "done"]
                   /\ UNCHANGED logged
              ELSE /\ logged' = logged + 1
                   /\ thisTick' = [thisTick EXCEPT !["cpu"] = "raised"]
                   /\ UNCHANGED <<cpu_samples, cpu_hist>>
    /\ sPc' = "freq"
    /\ UNCHANGED <<temp_samples, freq_samples, load_samples, timestamps,
                   last_temp_time, running, sensor_key, start_time, end_time, sWake,
                   clock, signals, mainVars, tempAttempts, firstTickAt, ticks, probe>>

\* sample(): self.cpu_samples.append(psutil.cpu_percent(interval=None))
SampleCpu(src) ==
    /\ sPc = "cpu"
    /\ \E r \in src.cpu :
         /\ MayDraw(src, r)
         /\ IF r.ok
              THEN /\ cpu_samples' = DequeAppend(cpu_samples, r.val, CpuCapacity)
                   /\ cpu_hist' = Append(cpu_hist, r.val)
                   /\ thisTick' = [thisTick EXCEPT !["cpu"] = "done"]
                   /\ sPc' = "freq"
                   /\ UNCHANGED <<sWake, logged>>
              ELSE /\ LogAndEndTick
                   /\ thisTick' = [thisTick EXCEPT !["cpu"] = "raised"]
                   /\ UNCHANGED <<cpu_samples, cpu_hist>>
    /\ UNCHANGED <<temp_samples, freq_samples, load_samples, timestamps,
                   last_temp_time, running, sensor_key, start_time, end_time,
                   clock, signals, mainVars, tempAttempts, firstTickAt, ticks, probe>>

\* sample(): cpu_freq = psutil.cpu_freq();
\*           self.freq_samples.append(cpu_freq.current if cpu_freq else 0.0)
SampleFreq(src) ==
    /\ sPc = "freq"
    /\ \E r \in src.freq :
         /\ MayDraw(src, r)
         /\ IF r.ok
              THEN /\ freq_samples' = DequeAppend(freq_samples,
                                        IF r.val # None THEN r.val[1] ELSE 0,
                                        CpuCapacity)
                   /\ thisTick' = [thisTick EXCEPT !["freq"] = "done"]
                   /\ sPc' = "load"
                   /\ UNCHANGED <<sWake, logged>>
              ELSE /\ LogAndEndTick
                   /\ thisTick' = [thisTick EXCEPT !["freq"] = "raised"]
                   /\ UNCHANGED freq_samples
    /\ UNCHANGED <<cpu_samples, temp_samples, load_samples, timestamps,
                   last_temp_time, running, sensor_key, start_time, end_time,
                   clock, signals, mainVars, historyVars, probe>>

\* sample(): self.load_samples.append(psutil.getloadavg())
SampleLoad(src) ==
    /\ sPc = "load"
    /\ \E r \in src.load :
         /\ MayDraw(src, r)
         /\ IF r.ok
              THEN /\ load_samples' = DequeAppend(load_samples, r.val, CpuCapacity)
                   /\ thisTick' = [thisTick EXCEPT !["load"] = "done"]
                   /\ sPc' = "temp"
                   /\ UNCHANGED <<sWake, logged>>
              ELSE /\ LogAndEndTick
                   /\ thisTick' = [thisTick EXCEPT !["load"] = "raised"]
                   /\ UNCHANGED load_samples
    /\ UNCHANGED <<cpu_samples, temp_samples, freq_samples, timestamps,
                   last_temp_time, running, sensor_key, start_time, end_time,
                   clock, signals, mainVars, historyVars, probe>>

\* the check made against the base interval instead of the temperature one
TempDueAfterBaseInterval(now_ts) == now_ts - last_temp_time >= SampleInterval

\* sample(): now_ts - self._last_temp_time >= SETTINGS.temp_sample_interval_sec
TempDue(now_ts) == now_ts - last_temp_time >= TempSampleInterval

\* a temperature step that records the time of successful reads only
SampleTempUpdateOnSuccess(src) ==
    /\ sPc = "temp"
    /\ IF TempDue(clock)
         THEN /\ \E r \in src.temps :
                   LET temp == ReadTemperature(sensor_key, r)
                   IN /\ temp_samples' = IF temp # None
                                           THEN DequeAppend(temp_samples, temp[1], TempCapacity)
                                           ELSE temp_samples
                      /\ last_temp_time' = IF temp # None THEN clock ELSE last_temp_time
              /\ tempAttempts' = tempAttempts + 1
         ELSE UNCHANGED <<temp_samples, last_temp_time, tempAttempts>>
    /\ thisTick' = [thisTick EXCEPT !["temp"] = "done"]
    /\ EndTick
    /\ UNCHANGED <<cpu_samples, freq_samples, load_samples, timestamps,
                   running, sensor_key, start_time, end_time, logged,
                   clock, signals, mainVars, cpu_hist, firstTickAt, ticks, probe>>

\* sample(): now_ts = time.time(); if now_ts - self._last_temp_time >= ...:
\*           temp = self._read_temperature(); append unless None;
\*           self._last_temp_time = now_ts
SampleTemp(src) ==
    /\ sPc = "temp"
    /\ IF TempDue(clock)
         THEN /\ \E r \in src.temps :
                   LET temp == ReadTemperature(sensor_key, r)
                   IN temp_samples' = IF temp # None
                                        THEN DequeAppend(temp_samples, temp[1], TempCapacity)
                                        ELSE temp_samples
              /\ last_temp_time' = clock
              /\ tempAttempts' = tempAttempts + 1
         ELSE UNCHANGED <<temp_samples, last_temp_time, tempAttempts>>
    /\ thisTick' = [thisTick EXCEPT !["temp"] = "done"]
    /\ EndTick
    /\ UNCHANGED <<cpu_samples, freq_samples, load_samples, timestamps,
                   running, sensor_key, start_time, end_time, logged,
                   clock, signals, mainVars, cpu_hist, firstTickAt, ticks, probe>>

\* run(): time.sleep(SETTINGS.sample_interval_sec) returns, no earlier than
\* the interval after it was called
SamplerWake ==
    /\ sPc = "sleeping"
    /\ clock >= sWake
    /\ sPc' = "check"
    /\ UNCHANGED <<monitorVars, sWake, thisTick, logged, clock, signals, mainVars, historyVars, probe>>

\* the wall clock advances, at most horizon units past the epoch
Tick(horizon) ==
    /\ clock < Epoch + horizon
    /\ clock' = clock + 1
    /\ UNCHANGED <<monitorVars, samplerVars, signals, historyVars, mainVars, probe>>


(***************************************************************************)
(* Statistics over a window.  A mean is the exact fraction num/den.        *)
(***************************************************************************)
RECURSIVE SumSeq(_)
SumSeq(s) == IF s = <<>> THEN 0 ELSE s[1] + SumSeq(Tail(s))

RECURSIVE Gcd(_, _)
Gcd(a, b) == IF b = 0 THEN a ELSE Gcd(b, a % b)

\* the number n/d, in lowest terms so that equal numbers are equal values
Frac(n, d) == [num |-> n \div Gcd(n, d), den |-> d \div Gcd(n, d)]
Whole(v) == [num |-> v, den |-> 1]

\* CPUMonitor.avg: mean(data) if data else 0.0
Avg(data) == IF data = <<>> THEN Whole(0) ELSE Frac(SumSeq(data), Len(data))

\* max(data) and min(data) of a non-empty window
MaxOf(data) == CHOOSE x \in {data[i] : i \in 1..Len(data)} :
                   \A i \in 1..Len(data) : data[i] <= x
MinOf(data) == CHOOSE x \in {data[i] : i \in 1..Len(data)} :
                   \A i \in 1..Len(data) : x <= data[i]

\* thresholds taken as exclusive bounds
ColorizeExclusive(value, warn, crit) ==
    IF value.num > crit * value.den THEN "red"
    ELSE IF value.num > warn * value.den THEN "yellow"
    ELSE "green"

\* the warn test made before the crit test
ColorizeWarnFirst(value, warn, crit) ==
    IF value.num >= warn * value.den THEN "yellow"
    ELSE IF value.num >= crit * value.den THEN "red"
    ELSE "green"

\* colorize: the colour of the markup string it returns
Colorize(value, warn, crit) ==
    IF value.num >= crit * value.den THEN "red"
    ELSE IF value.num >= warn * value.den THEN "yellow"
    ELSE "green"

Shown(value, warn, crit) == [value |-> value, color |-> Colorize(value, warn, crit)]
Blank == [value |-> Whole(0), color |-> ""]

(***************************************************************************)
(* CPUMonitor.stop, called by signal_handler and by the finally clause.    *)
(***************************************************************************)
\* self.running.clear()
StopClear == running' = FALSE

\* self.end_time = datetime.now()
StopSetEnd == end_time' = Some(clock)

(***************************************************************************)
(* The main thread (__main__), CPUUI.make_renderable, print_summary and    *)
(* save_data_log.  It runs only while no signal handler is running.        *)
(***************************************************************************)
\* signal.signal(SIGINT, signal_handler); monitor.start()
MainStart ==
    /\ mPc = "start" /\ hPc = "idle"
    /\ mPc' = "loop"
    /\ sPc' = "detect"
    /\ UNCHANGED <<monitorVars, sWake, thisTick, logged, clock, signals,
                   historyVars, mWake, hPc, outputVars, probe>>

\* while monitor.running.is_set()
MainLoopCheck ==
    /\ mPc = "loop" /\ hPc = "idle"
    /\ mPc' = IF running THEN "r_cur" ELSE "stop_clear"
    /\ UNCHANGED <<monitorVars, samplerVars, clock, signals, historyVars,
                   mWake, hPc, outputVars, probe>>

\* make_renderable: current_cpu = m.cpu_samples[-1] if m.cpu_samples else 0.0
RenderCurrent ==
    /\ mPc = "r_cur" /\ hPc = "idle"
    /\ ui' = [ui EXCEPT !.current =
                 IF cpu_samples # <<>> THEN cpu_samples[Len(cpu_samples)] ELSE 0,
                           !.fed = Len(cpu_hist)]
    /\ mPc' = "r_avg"
    /\ UNCHANGED <<monitorVars, samplerVars, clock, signals, historyVars,
                   mWake, hPc, summary, csv_rows, csv_status, probe>>

\* make_renderable: avg_cpu = m.avg(m.cpu_samples)
RenderAvg ==
    /\ mPc = "r_avg" /\ hPc = "idle"
    /\ ui' = [ui EXCEPT !.avg = Shown(Avg(cpu_samples), CpuWarn, CpuCrit)]
    /\ mPc' = "r_peak"
    /\ UNCHANGED <<monitorVars, samplerVars, clock, signals, historyVars,
                   mWake, hPc, summary, csv_rows, csv_status, probe>>

\* make_renderable: peak_cpu = max(m.cpu_samples, default=0);
\* cpu_load = psutil.getloadavg(), which may raise and end the Live loop
RenderPeak(src) ==
    /\ mPc = "r_peak" /\ hPc = "idle"
    /\ \E r \in src.load :
         IF r.ok
           THEN /\ ui' = [ui EXCEPT !.peak =
                            Shown(Whole(IF cpu_samples # <<>> THEN MaxOf(cpu_samples) ELSE 0),
                                  CpuWarn, CpuCrit)]
                /\ mPc' = "r_temp"
           ELSE /\ mPc' = "stop_clear"
                /\ UNCHANGED ui
    /\ UNCHANGED <<monitorVars, samplerVars, clock, signals, historyVars,
                   mWake, hPc, summary, csv_rows, csv_status, probe>>

\* make_renderable: the temperature row, "No temperature data" when the
\* window is empty (its reads of temp_samples taken as one step)
RenderTemp ==
    /\ mPc = "r_temp" /\ hPc = "idle"
    /\ ui' = [ui EXCEPT
                !.has_temp = temp_samples # <<>>,
                !.temp = IF temp_samples # <<>>
                           THEN Shown(Whole(temp_samples[Len(temp_samples)]), TempWarn, TempCrit)
                           ELSE Blank,
                !.avg_temp = IF temp_samples # <<>>
                               THEN Shown(Avg(temp_samples), TempWarn, TempCrit)
                               ELSE Blank]
    /\ mPc' = "r_freq"
    /\ UNCHANGED <<monitorVars, samplerVars, clock, signals, historyVars,
                   mWake, hPc, summary, csv_rows, csv_status, probe>>

\* make_renderable: cpu_freq = psutil.cpu_freq(), which may raise;
\* time.sleep(SETTINGS.sample_interval_sec)
RenderSleep(src) ==
    /\ mPc = "r_freq" /\ hPc = "idle"
    /\ \E r \in src.freq :
         IF r.ok
           THEN /\ mPc' = "r_sleeping"
                /\ mWake' = clock + SampleInterval
           ELSE /\ mPc' = "stop_clear"
                /\ UNCHANGED mWake
    /\ UNCHANGED <<monitorVars, samplerVars, clock, signals, historyVars,
                   hPc, outputVars, probe>>

\* the sleep returns; live.update(...) and time.sleep(0.1) take less than a
\* time unit
RenderWake ==
    /\ mPc = "r_sleeping" /\ hPc = "idle"
    /\ clock >= mWake
    /\ mPc' = "loop"
    /\ UNCHANGED <<monitorVars, samplerVars, clock, signals, historyVars,
                   mWake, hPc, outputVars, probe>>

\* finally: monitor.stop(), first statement
MainStopClear ==
    /\ mPc = "stop_clear" /\ hPc = "idle"
    /\ StopClear
    /\ mPc' = "stop_end"
    /\ UNCHANGED <<windowVars, last_temp_time, sensor_key, start_time, end_time,
                   samplerVars, clock, signals, historyVars, mWake, hPc, outputVars, probe>>

\* finally: monitor.stop(), second statement
MainStopSetEnd ==
    /\ mPc = "stop_end" /\ hPc = "idle"
    /\ StopSetEnd
    /\ mPc' = "join"
    /\ UNCHANGED <<windowVars, last_temp_time, running, sensor_key, start_time,
                   samplerVars, clock, signals, historyVars, mWake, hPc, outputVars, probe>>

\* a join that returns without waiting for the sampler thread
JoinWithoutWaiting ==
    /\ mPc = "join" /\ hPc = "idle"
    /\ mPc' = "summary"
    /\ UNCHANGED <<monitorVars, samplerVars, clock, signals, historyVars,
                   mWake, hPc, outputVars, probe>>

\* finally: monitor.join() returns once run() has returned
MainJoin ==
    /\ mPc = "join" /\ hPc = "idle"
    /\ sPc = "exited"
    /\ mPc' = "summary"
    /\ UNCHANGED <<monitorVars, samplerVars, clock, signals, historyVars,
                   mWake, hPc, outputVars, probe>>

\* the three lines print_summary prints for a window
Stats(data, warn, crit) ==
    [avg |-> Shown(Avg(data), warn, crit),
     min |-> Shown(Whole(MinOf(data)), warn, crit),
     max |-> Shown(Whole(MaxOf(data)), warn, crit)]

\* a summary that stamps the end time itself before printing it
PrintSummaryStampingEnd ==
    /\ mPc = "summary" /\ hPc = "idle"
    /\ end_time' = Some(clock)
    /\ summary' = Some([times |-> Some(<<FormatTimestamp(start_time),
                                         FormatTimestamp(clock),
                                         (clock - start_time) \div 2>>),
                        cpu |-> IF cpu_samples # <<>>
                                  THEN Some(Stats(cpu_samples, CpuWarn, CpuCrit))
                                  ELSE None,
                        temp |-> IF temp_samples # <<>>
                                   THEN Some(Stats(temp_samples, TempWarn, TempCrit))
                                   ELSE None])
    /\ mPc' = "ask"
    /\ UNCHANGED <<windowVars, last_temp_time, running, sensor_key, start_time,
                   samplerVars, clock, signals, historyVars,
                   mWake, hPc, ui, csv_rows, csv_status, probe>>

\* print_summary: the times and duration when both are set, then the CPU
\* lines or "No CPU usage data collected.", then the temperature lines or
\* "No temperature data was collected."; None is the "no data" line
PrintSummary ==
    /\ mPc = "summary" /\ hPc = "idle"
    /\ summary' = Some([times |-> IF end_time # None
                                   THEN Some(<<FormatTimestamp(start_time),
                                              FormatTimestamp(end_time[1]),
                                              (end_time[1] - start_time) \div 2>>)
                                   ELSE None,
                        cpu |-> IF cpu_samples # <<>>
                                  THEN Some(Stats(cpu_samples, CpuWarn, CpuCrit))
                                  ELSE None,
                        temp |-> IF temp_samples # <<>>
                                   THEN Some(Stats(temp_samples, TempWarn, TempCrit))
                                   ELSE None])
    /\ mPc' = "ask"
    /\ UNCHANGED <<monitorVars, samplerVars, clock, signals, historyVars,
                   mWake, hPc, ui, csv_rows, csv_status, probe>>

\* a CSV field: a number written with "%.1f", a value written as it is, an
\* empty field, or the marker "N/A"
Num1(v) == [kind |-> "%.1f", val |-> <<v>>]
Raw(v) == [kind |-> "str", val |-> <<v>>]
EmptyField == [kind |-> "", val |-> <<>>]
NAField == [kind |-> "N/A", val |-> <<>>]

\* save_data_log: the row written for index i = k - 1
CsvRow(k) ==
    LET load == IF k <= Len(load_samples)
                  THEN <<Raw(load_samples[k][1]), Raw(load_samples[k][2]),
                         Raw(load_samples[k][3])>>
                  ELSE <<EmptyField, EmptyField, EmptyField>>
    IN [index |-> k,
        ts |-> IF k <= Len(timestamps) THEN Raw(timestamps[k]) ELSE EmptyField,
        cpu |-> IF k <= Len(cpu_samples) THEN Num1(cpu_samples[k]) ELSE EmptyField,
        temp |-> IF k <= Len(temp_samples) THEN Num1(temp_samples[k]) ELSE NAField,
        freq |-> IF k <= Len(freq_samples) THEN Num1(freq_samples[k]) ELSE EmptyField,
        load1 |-> load[1], load5 |-> load[2], load15 |-> load[3]]

\* rows written only as far as the temperature window reaches
CsvRowsTempLength == [k \in 1..Len(temp_samples) |-> CsvRow(k)]

\* save_data_log: for i in range(len(m.cpu_samples)): writer.writerow(...)
CsvRows == [k \in 1..Len(cpu_samples) |-> CsvRow(k)]

\* save_data_log: the prompt; any answer but "y" skips the export
AskSave ==
    /\ mPc = "ask" /\ hPc = "idle"
    /\ \E yes \in BOOLEAN :
         IF yes
           THEN /\ mPc' = "write"
                /\ UNCHANGED csv_status
           ELSE /\ mPc' = "done"
                /\ csv_status' = "not saved"
    /\ UNCHANGED <<monitorVars, samplerVars, clock, signals, historyVars,
                   mWake, hPc, ui, summary, csv_rows, probe>>

\* save_data_log: open the file and write the rows, or fail to open it
WriteCsv ==
    /\ mPc = "write" /\ hPc = "idle"
    /\ \E opened \in BOOLEAN :
         IF opened
           THEN /\ csv_rows' = CsvRows
                /\ csv_status' = "saved"
           ELSE /\ csv_status' = "failed"
                /\ UNCHANGED csv_rows
    /\ mPc' = "done"
    /\ UNCHANGED <<monitorVars, samplerVars, clock, signals, historyVars,
                   mWake, hPc, ui, summary, probe>>

(***************************************************************************)
(* SIGINT: signal_handler runs monitor.stop() in the main thread, between  *)
(* two of its steps, once the handler is installed and until the process   *)
(* ends.                                                                   *)
(***************************************************************************)
Signal ==
    /\ mPc \notin {"start", "done"}
    /\ hPc = "idle"
    /\ signals < MaxSignals
    /\ signals' = signals + 1
    /\ hPc' = "stop_clear"
    /\ UNCHANGED <<monitorVars, samplerVars, clock, historyVars, mPc, mWake,
                   outputVars, probe>>

HandlerStopClear ==
    /\ hPc = "stop_clear"
    /\ StopClear
    /\ hPc' = "stop_end"
    /\ UNCHANGED <<windowVars, last_temp_time, sensor_key, start_time, end_time,
                   samplerVars, clock, signals, historyVars, mPc, mWake, outputVars, probe>>

HandlerStopSetEnd ==
    /\ hPc = "stop_end"
    /\ StopSetEnd
    /\ hPc' = "idle"
    /\ UNCHANGED <<windowVars, last_temp_time, running, sensor_key, start_time,
                   samplerVars, clock, signals, historyVars, mPc, mWake, outputVars, probe>>

(***************************************************************************)
(* The program: construction, then the two threads, the clock and SIGINT.  *)
(***************************************************************************)
\* fed: how many CPU readings had been appended when the pass read the latest
BlankUi == [current |-> 0, fed |-> 0, avg |-> Blank, peak |-> Blank,
            has_temp |-> FALSE, temp |-> Blank, avg_temp |-> Blank]

ProgramInit ==
    /\ MonitorInit
    /\ sPc = "unstarted" /\ sWake = 0 /\ thisTick = NewTick /\ logged = 0
    /\ clock = Epoch /\ signals = 0
    /\ cpu_hist = <<>> /\ tempAttempts = 0 /\ firstTickAt = None /\ ticks = 0
    /\ mPc = "start" /\ mWake = 0 /\ hPc = "idle"
    /\ ui = BlankUi /\ summary = None /\ csv_rows = <<>> /\ csv_status = ""

NoProbe == [value |-> Whole(0), warn |-> 0, crit |-> 0, color |-> ""]

Init == ProgramInit /\ probe = NoProbe

SamplerStep(src) ==
    \/ Detect(src)
    \/ LoopCheck
    \/ SampleTimestamp
    \/ SampleCpu(src)
    \/ SampleFreq(src)
    \/ SampleLoad(src)
    \/ SampleTemp(src)
    \/ SamplerWake

\* the Live loop: while monitor.running.is_set(): live.update(ui.make_renderable())
RenderStep(src) ==
    \/ MainLoopCheck
    \/ RenderCurrent
    \/ RenderAvg
    \/ RenderPeak(src)
    \/ RenderTemp
    \/ RenderSleep(src)
    \/ RenderWake

MainStep(src) ==
    \/ MainStart
    \/ RenderStep(src)
    \/ MainStopClear
    \/ MainStopSetEnd
    \/ MainJoin
    \/ PrintSummary
    \/ AskSave
    \/ WriteCsv

SignalStep ==
    \/ Signal
    \/ HandlerStopClear
    \/ HandlerStopSetEnd

\* the outcomes the metric source may have in a run of the whole program
Source ==
    [max_faults |-> MaxFaults,
     cpu |-> {Raised(0), Returned(20)},
     freq |-> {Raised(None), Returned(Some(2400))},
     load |-> {Raised(<<0, 0, 0>>), Returned(<<1, 2, 3>>)},
     temps |-> {Raised(NoSensors), Returned(NoSensors),
                Returned(OneGroup("coretemp", <<Entry(TRUE, 72)>>))}]

Next ==
    \/ SamplerStep(Source)
    \/ MainStep(Source)
    \/ SignalStep
    \/ Tick(Horizon)

Spec == Init /\ [][Next]_vars

(***************************************************************************)
(* The sampler thread alone, never stopped, over a richer metric source.   *)
(***************************************************************************)
SamplerSource ==
    [max_faults |-> SamplerMaxFaults,
     cpu |-> {Raised(0), Returned(20), Returned(95)},
     freq |-> {Raised(None), Returned(None), Returned(Some(2400))},
     load |-> {Raised(<<0, 0, 0>>), Returned(<<1, 2, 3>>)},
     temps |-> {Raised(NoSensors), Returned(NoSensors),
                Returned(OneGroup("coretemp", <<Entry(FALSE, 40), Entry(TRUE, 72)>>)),
                Returned(OneGroup("nvme", <<Entry(FALSE, 35)>>))}]

SamplerNext ==
    \/ MainStart
    \/ SamplerStep(SamplerSource)
    \/ Tick(SamplerHorizon)

SamplerSpec == Init /\ [][SamplerNext]_vars


(***************************************************************************)
(* Properties of the whole program (Spec).                                 *)
(***************************************************************************)

\* C1: stop() is idempotent: once a call has set end_time, no later call
\* changes end_time or the running flag.
C1_StopIsIdempotent ==
    [][end_time # None => (end_time' = end_time /\ running' = running)]_vars

\* C3: a failed read does not block the rest of its tick: when a tick is
\* over, each of its CPU, frequency and load reads has been made (it gave a
\* value or it raised) and the temperature step has run.
C3_FailureDoesNotBlockOthers ==
    sPc = "sleeping" =>
        \A step \in {"cpu", "freq", "load", "temp"} : thisTick[step] # "pending"

\* C4: the sampler thread leaves its loop only after stop() has cleared the
\* running flag, whatever reads have failed.
C4_SamplerExitsOnlyAfterStop ==
    sPc = "exited" => ~running

\* a read failed, a later tick ran to its end, and the thread exited after a
\* stop
C4_Witness ==
    /\ sPc = "exited"
    /\ logged > 0
    /\ thisTick["temp"] = "done"
    /\ ~running

\* C8: when sensor discovery found no key, the temperature window is empty
\* in every state, the summary prints the "no temperature data" line and
\* every exported row has "N/A" as its temperature.
C8_NoSensorNoTemperature ==
    (sPc \notin {"unstarted", "detect"} /\ sensor_key = "none") =>
        /\ temp_samples = <<>>
        /\ summary # None => summary[1].temp = None
        /\ csv_status = "saved" =>
               \A k \in 1..Len(csv_rows) : csv_rows[k].temp = NAField

\* discovery found nothing, temperature reads were attempted, and the
\* session was summarised and exported with at least two rows
C8_Witness ==
    /\ sensor_key = "none"
    /\ tempAttempts > 0
    /\ summary # None
    /\ csv_status = "saved"
    /\ Len(csv_rows) >= 2

\* C9: a saved export has one row per element of the CPU window, numbered
\* 1..N, each with its CPU value; a row beyond the temperature window has
\* "N/A" as its temperature, a row beyond the frequency or load window has
\* those fields empty, and rows inside a window carry its values.
C9_ExportRowPerCpuSample ==
    csv_status = "saved" =>
        /\ Len(csv_rows) = Len(cpu_samples)
        /\ \A k \in 1..Len(csv_rows) :
             /\ csv_rows[k].index = k
             /\ csv_rows[k].cpu = Num1(cpu_samples[k])
             /\ csv_rows[k].temp = IF k > Len(temp_samples) THEN NAField
                                   ELSE Num1(temp_samples[k])
             /\ csv_rows[k].freq = IF k > Len(freq_samples) THEN EmptyField
                                   ELSE Num1(freq_samples[k])
             /\ k > Len(load_samples) =>
                    /\ csv_rows[k].load1 = EmptyField
                    /\ csv_rows[k].load5 = EmptyField
                    /\ csv_rows[k].load15 = EmptyField
             /\ k <= Len(load_samples) => csv_rows[k].load1 = Raw(load_samples[k][1])

\* an export whose CPU window is longer than its temperature window and its
\* frequency window, neither of them empty
C9_Witness ==
    /\ csv_status = "saved"
    /\ Len(cpu_samples) >= 2
    /\ Len(temp_samples) >= 1 /\ Len(temp_samples) < Len(cpu_samples)
    /\ Len(freq_samples) < Len(cpu_samples)

\* C10: from the moment the summary is printed until the export ends,
\* end_time and every window stay as they are.
C10_StableWhileReporting ==
    [][(summary # None /\ mPc # "done") =>
          (end_time' = end_time /\ windowVars' = windowVars)]_vars

\* C12: end_time is null while the running flag is set; once the flag has
\* been cleared it is never set again, and end_time, once set, is not set a
\* second time.
C12_EndTimeSetOnceAfterStop ==
    /\ [](running => end_time = None)
    /\ [][~running => ~running']_vars
    /\ [][end_time # None => end_time' = end_time]_vars

\* C13: the sampler finishes a tick that is in flight before the end time
\* is recorded: once end_time has been set, no window receives an append.
C13_NoAppendAfterEndTime ==
    [][end_time # None => windowVars' = windowVars]_vars

(***************************************************************************)
(* Properties of the sampler thread (SamplerSpec).                         *)
(***************************************************************************)
LastN(s, n) == SubSeq(s, Len(s) - n + 1, Len(s))
Min(a, b) == IF a <= b THEN a ELSE b

\* C14: at every tick boundary the timestamp window and the CPU window have
\* the same length, whatever CPU reads have failed (the pairing of the i-th
\* timestamp with the i-th CPU sample of the same tick rests on it).
C14_TimestampPerCpuSample ==
    sPc = "sleeping" => Len(timestamps) = Len(cpu_samples)

\* C16: every temperature read attempt, whether it gives a value or not,
\* records its time as the last-temperature-time, nothing else changes that
\* time, and each attempt comes at least the temperature interval after the
\* time recorded by the attempt before it.
C16_AttemptsSpacedByInterval ==
    [][IF tempAttempts' # tempAttempts
         THEN /\ last_temp_time' = clock
              /\ clock - last_temp_time >= TempSampleInterval
         ELSE last_temp_time' = last_temp_time]_vars

\* two attempts, an interval or more apart, neither of which gave a value
C16_Witness ==
    /\ tempAttempts = 2
    /\ temp_samples = <<>>
    /\ last_temp_time >= Epoch + TempSampleInterval

\* C17: the capacity of a window is window_duration / sampling_interval for
\* its metric (the base interval for CPU, frequency, load and timestamps, the
\* temperature interval for temperature), and no window is ever longer than
\* its capacity.
C17_LengthWithinCapacity ==
    /\ Len(cpu_samples) <= WindowDuration \div SampleInterval
    /\ Len(freq_samples) <= WindowDuration \div SampleInterval
    /\ Len(load_samples) <= WindowDuration \div SampleInterval
    /\ Len(timestamps) <= WindowDuration \div SampleInterval
    /\ Len(temp_samples) <= WindowDuration \div TempSampleInterval

\* the CPU window is full and has evicted a reading; the temperature window
\* is full after two read attempts
C17_Witness ==
    /\ Len(cpu_hist) > WindowDuration \div SampleInterval
    /\ Len(cpu_samples) = WindowDuration \div SampleInterval
    /\ Len(timestamps) = WindowDuration \div SampleInterval
    /\ tempAttempts = 2
    /\ Len(temp_samples) = WindowDuration \div TempSampleInterval
    /\ sensor_key # "none"

\* C19: at every tick boundary, whatever reads have failed, the timestamp
\* window is at least as long as the CPU window, which is at least as long
\* as the frequency window, which is at least as long as the load window.
C19_WindowLengthsOrdered ==
    sPc = "sleeping" =>
        /\ Len(timestamps) >= Len(cpu_samples)
        /\ Len(cpu_samples) >= Len(freq_samples)
        /\ Len(freq_samples) >= Len(load_samples)

\* a tick boundary after a failed CPU read and a failed frequency read, with
\* some load readings taken
C19_Witness ==
    /\ sPc = "sleeping"
    /\ Len(timestamps) > Len(cpu_samples)
    /\ Len(cpu_samples) > Len(freq_samples)
    /\ Len(load_samples) >= 1

\* C2: after L CPU readings the CPU window holds the last min(L, C) of
\* them, in the order they were read.
C2_WindowHoldsLastReadings ==
    cpu_samples = LastN(cpu_hist, Min(Len(cpu_hist), CpuCapacity))

\* more readings than the window holds, the evicted one differing from the
\* oldest one kept
C2_Witness ==
    /\ Len(cpu_hist) > CpuCapacity
    /\ cpu_hist[1] # cpu_samples[1]
    /\ cpu_samples[1] # cpu_samples[Len(cpu_samples)]


(***************************************************************************)
(* The temperature cadence: the sampler thread alone over a long run in    *)
(* which time passes only inside time.sleep(), which returns on time or up *)
(* to MaxJitter late.                                                      *)
(***************************************************************************)
CadenceSource ==
    [max_faults |-> MaxFaults,
     cpu |-> {Raised(0), Returned(20)},
     freq |-> {Returned(Some(2400))},
     load |-> {Returned(<<1, 2, 3>>)},
     temps |-> {Returned(NoSensors)}]

SleepPasses ==
    /\ sPc = "sleeping"
    /\ clock < sWake + MaxJitter
    /\ Tick(CadenceHorizon)

CadenceNext ==
    \/ MainStart
    \/ SamplerStep(CadenceSource)
    \/ SleepPasses

CadenceSpec == Init /\ [][CadenceNext]_vars

\* at the end of a tick: the time from the start of the first tick to now,
\* and floor(elapsed / T) + 1
Elapsed == (sWake - SampleInterval) - firstTickAt[1]
ExpectedAttempts == (Elapsed \div TempSampleInterval) + 1

ScenarioFeed == <<50, 75, 95, 60>>

ScenarioSource ==
    [max_faults |-> 0,
     cpu |-> {Returned(ScenarioFeed[i]) : i \in 1..Len(ScenarioFeed)},
     freq |-> {Returned(Some(2400))},
     load |-> {Returned(<<1, 2, 3>>)},
     temps |-> {Returned(OneGroup("coretemp", <<Entry(TRUE, 72)>>))}]

ScenarioNext ==
    \/ MainStart
    \/ SamplerStep(ScenarioSource)
    \/ RenderStep(ScenarioSource)
    \/ Tick(ScenarioHorizon)

ScenarioSpec == Init /\ [][ScenarioNext]_vars

\* a make_renderable pass has read latest, average and peak from the window
\* that holds exactly the scenario's four readings
ScenarioRendered ==
    /\ cpu_hist = ScenarioFeed
    /\ ui.fed = Len(ScenarioFeed)
    /\ mPc \in {"r_temp", "r_freq", "r_sleeping"}

\* C15: window reads by the renderer and appends by the sampler exclude each
\* other: from the pass's read of the latest CPU value until its read of the
\* peak, the sampler makes no append to the CPU window.
C15_NoAppendDuringRenderReads ==
    [][(mPc \in {"r_avg", "r_peak"}) => (cpu_samples' = cpu_samples)]_vars

\* C6 as stated: average 70.0 shown as normal (green), peak 95 as critical
\* (red), latest 60 classified normal.
C6_ScenarioAverageNormal ==
    ScenarioRendered =>
        /\ ui.avg.value = Whole(70) /\ ui.avg.color = "green"
        /\ ui.peak.value = Whole(95) /\ ui.peak.color = "red"
        /\ ui.current = 60 /\ Colorize(Whole(ui.current), CpuWarn, CpuCrit) = "green"

\* C6 as amended: average 70.0 shown as warn (yellow, since 70.0 >= warn),
\* peak 95 as critical (red), latest 60 classified normal.
C6_ScenarioAverageWarn ==
    ScenarioRendered =>
        /\ ui.avg.value = Whole(70) /\ ui.avg.color = "yellow"
        /\ ui.peak.value = Whole(95) /\ ui.peak.color = "red"
        /\ ui.current = 60 /\ Colorize(Whole(ui.current), CpuWarn, CpuCrit) = "green"

\* the four readings fill the window and a pass has rendered them
C6_Witness == ScenarioRendered /\ cpu_samples = ScenarioFeed

(***************************************************************************)
(* colorize applied once to arguments drawn from a bounded set: values     *)
(* that are whole or half numbers, thresholds with warn <= crit.           *)
(***************************************************************************)
ProbeInputs ==
    {[value |-> Frac(n, d), warn |-> w, crit |-> c, color |-> ""] :
        n \in 0..(2 * MaxThreshold + 2), d \in {1, 2},
        w \in 1..MaxThreshold, c \in 1..MaxThreshold}

ColorizeInit ==
    /\ ProgramInit
    /\ probe \in {p \in ProbeInputs : p.warn <= p.crit}

ApplyColorize ==
    /\ probe.color = ""
    /\ probe' = [probe EXCEPT !.color = Colorize(probe.value, probe.warn, probe.crit)]
    /\ UNCHANGED <<monitorVars, samplerVars, clock, signals, historyVars, mainVars>>

ColorizeSpec == ColorizeInit /\ [][ApplyColorize]_vars

\* C7: v >= crit gives critical (red), warn <= v < crit gives warn
\* (yellow), v < warn gives normal (green).
C7_ClassifierBands ==
    probe.color # "" =>
        LET v == probe.value
            AtLeast(x) == v.num >= x * v.den
        IN /\ AtLeast(probe.crit) => probe.color = "red"
           /\ (AtLeast(probe.warn) /\ ~AtLeast(probe.crit)) => probe.color = "yellow"
           /\ ~AtLeast(probe.warn) => probe.color = "green"

\* a value equal to crit, above a lower warn, has been classified
C7_Witness ==
    /\ probe.color = "red"
    /\ probe.value = Whole(probe.crit)
    /\ probe.warn < probe.crit

(***************************************************************************)
(* Shutdown after one SIGINT, under fair scheduling: both threads and the  *)
(* signal handler keep taking steps while they can, and time keeps         *)
(* passing.  The clock is read up to LiveHorizon past the epoch: a session *)
(* is followed that far while it runs, and to its end once a stop has been *)
(* requested.                                                              *)
(***************************************************************************)
LiveSource ==
    [max_faults |-> MaxFaults,
     cpu |-> {Raised(0), Returned(20)},
     freq |-> {Returned(Some(2400))},
     load |-> {Raised(<<0, 0, 0>>), Returned(<<1, 2, 3>>)},
     temps |-> {Returned(NoSensors)}]

\* time passing beyond the last clock reading kept, in a session that is
\* being stopped: the sleeps in progress reach their deadlines
Overtime(horizon) ==
    /\ clock = Epoch + horizon
    /\ ~running
    /\ \/ (sPc = "sleeping" /\ sWake > clock)
       \/ (mPc = "r_sleeping" /\ mWake > clock)
    /\ sWake' = Min(sWake, clock)
    /\ mWake' = Min(mWake, clock)
    /\ UNCHANGED <<monitorVars, sPc, thisTick, logged, clock, signals, historyVars,
                   mPc, hPc, outputVars, probe>>

TimePasses(horizon) == Tick(horizon) \/ Overtime(horizon)

\* the session's only SIGINT
SingleSignal == signals = 0 /\ Signal

HandlerStep == HandlerStopClear \/ HandlerStopSetEnd

LiveNext ==
    \/ SamplerStep(LiveSource)
    \/ MainStep(LiveSource)
    \/ SingleSignal
    \/ HandlerStep
    \/ TimePasses(LiveHorizon)

LiveSpec ==
    /\ Init /\ [][LiveNext]_vars
    /\ WF_vars(SamplerStep(LiveSource))
    /\ WF_vars(MainStep(LiveSource))
    /\ WF_vars(HandlerStep)
    /\ WF_vars(TimePasses(LiveHorizon))

\* the shutdown steps that have been taken, read off the main thread's position
Stopped == mPc \in {"join", "summary", "ask", "write", "done"}
Joined == mPc \in {"summary", "ask", "write", "done"}
Prompted == mPc \in {"ask", "write", "done"}

\* C11: after a single SIGINT, under fair scheduling, the shutdown steps
\* come in the order stop, join, summary, export prompt (the join returns
\* only once the sampler has left its loop, which it does only at the loop
\* check, between two ticks; the summary is printed only after the join; the
\* prompt only after the summary), and each of them eventually happens.
C11_ShutdownInOrderAndComplete ==
    /\ [](Stopped => (~running /\ end_time # None))
    /\ [](Joined => sPc = "exited")
    /\ [](Prompted => summary # None)
    /\ [][sPc' = "exited" => sPc \in {"check", "exited"}]_vars
    /\ (signals = 1 ~> sPc = "exited")
    /\ (signals = 1 ~> Joined)
    /\ (signals = 1 ~> summary # None)
    /\ (signals = 1 ~> Prompted)

\* one SIGINT arrived, the sampler ran its last tick to the end and exited,
\* and the summary and the prompt followed
C11_Witness ==
    /\ signals = 1
    /\ sPc = "exited"
    /\ ticks >= 2 /\ thisTick["temp"] = "done"
    /\ summary # None
    /\ mPc = "ask"

\* the main thread's positions inside make_renderable, print_summary and
\* save_data_log
ReadOnlySteps == {"r_cur", "r_avg", "r_peak", "r_temp", "r_freq", "r_sleeping",
                  "summary", "ask", "write"}

\* C18: a step of make_renderable, of print_summary or of save_data_log
\* leaves every window, the running flag, end_time, the sensor key and the
\* last-temperature-time as they were.
C18_ReadersLeaveSharedState ==
    [][(mPc \in ReadOnlySteps /\ mPc' # mPc) =>
          UNCHANGED <<windowVars, running, end_time, sensor_key, last_temp_time>>]_vars

\* a renderer pass over a fed window, the summary and a saved export have
\* all run
C18_Witness ==
    /\ ui.fed > 0
    /\ summary # None
    /\ csv_status = "saved"
    /\ Len(csv_rows) >= 1
    /\ end_time # None /\ ~running

\* C20: once stop() has cleared the running flag, no loop check of the
\* sampler passes any more, so the only tick that can still begin is the one
\* whose check had passed before the clear; the sampler thread then exits.
C20_AtMostOneTickAfterStop ==
    /\ [][~running => (ticks' = ticks /\ (sPc' = "ts" => sPc = "ts"))]_vars
    /\ (~running ~> sPc = "exited")

\* the flag has been cleared between a loop check that passed and the tick
\* it lets begin
C20_Witness ==
    /\ ~running
    /\ sPc = "ts"
    /\ ticks >= 2

=============================================================================
